---- MODULE Spec2Model ----
(***************************************************************************)
(* grenze-server: a rate-limited HTTP forwarding gateway.                  *)
(*                                                                         *)
(* crates/grenze-server/src/api/proxy.rs                                   *)
(*   proxy            the request handler: key check, limiter, forwarding  *)
(*   AppState::new    the limiter configuration and the store connection   *)
(*   AppState::allow  the leaky bucket, a Lua script evaluated by Redis    *)
(*                                                                         *)
(* Numbers.  The script computes in Lua doubles.  elapsed_ms and           *)
(* leak_per_sec are integers, so every fill the script can compute is a    *)
(* multiple of 1/1000; the model holds fill and leaked in thousandths of a *)
(* unit (1 unit = 1000) and times in milliseconds.  Strings (keys, store   *)
(* field names, stored values) are sequences of one-character strings.     *)
(***************************************************************************)
EXTENDS Integers, Sequences, FiniteSets, TLC

\* ---------------------------------------------------------------- bounds
\* largest rps handed to AppState::new
MaxRps == 2
\* the clock runs from 0 to MaxTick half seconds
MaxTick == 5
\* limiter checks in one behaviour of LimiterSpec
MaxChecks == 5
\* requests inside proxy at one time (one task each)
MaxReqs == 2
\* script evaluations in one behaviour of Spec
MaxEvals == 3
\* the clock of Spec runs from 0 to MaxGwTick half seconds
MaxGwTick == 1

\* headers in a downstream answer of the forwarder runs
MaxHeaders == 2

\* ------------------------------------------------------------- variables
VARIABLES
    capacity,       \* AppState.capacity
    leak_per_sec,   \* AppState.leak_per_sec
    clock,          \* wall clock of the Counter Store, ms
    store,          \* Redis keyspace: field name -> [val, exp]
    log,            \* the script evaluations so far, in the store's order
    mutex,          \* AppState.redis of each gateway: the request holding it, or 0
    reqs,           \* the requests: where each is in proxy, and what it got
    boot            \* main: where it is in start-up, and the store's reach

vars == <<capacity, leak_per_sec, clock, store, log, mutex, reqs, boot>>

\* ---------------------------------------------------------------- strings
Digits == <<"0", "1", "2", "3", "4", "5", "6", "7", "8", "9">>

White == {" ", "\t"}

RECURSIVE TrimStart(_)
TrimStart(s) ==
    IF s = <<>> THEN <<>>
    ELSE IF Head(s) \in White THEN TrimStart(Tail(s)) ELSE s

RECURSIVE TrimEnd(_)
TrimEnd(s) ==
    IF s = <<>> THEN <<>>
    ELSE IF s[Len(s)] \in White THEN TrimEnd(SubSeq(s, 1, Len(s) - 1)) ELSE s

\* mutant: the key is used as sent
TrimNone(s) == s

\* str::trim
Trim(s) == TrimEnd(TrimStart(s))

\* format!("rl:{}", key)
BucketKey(key) == <<"r", "l", ":">> \o key

\* mutant: one fill field for all keys
FillKeyShared(base) == <<"r", "l", ":", "f", "i", "l", "l">>

\* base .. ":fill"
FillKey(base) == base \o <<":", "f", "i", "l", "l">>

\* base .. ":ts"
TsKey(base) == base \o <<":", "t", "s">>

RECURSIVE NatToStr(_)
\* an integer as Lua hands it to redis.call: its decimal digits
NatToStr(n) ==
    IF n < 10 THEN <<Digits[n + 1]>>
    ELSE NatToStr(n \div 10) \o <<Digits[(n % 10) + 1]>>

\* the fraction digits of m thousandths (1..999), trailing zeros dropped
FracToStr(m) ==
    IF m % 100 = 0 THEN <<Digits[(m \div 100) + 1]>>
    ELSE IF m % 10 = 0
         THEN <<Digits[(m \div 100) + 1], Digits[((m \div 10) % 10) + 1]>>
         ELSE <<Digits[(m \div 100) + 1], Digits[((m \div 10) % 10) + 1],
                Digits[(m % 10) + 1]>>

\* tostring(fill), "%.14g": x thousandths as a decimal string
LuaToString(x) ==
    IF x % 1000 = 0 THEN NatToStr(x \div 1000)
    ELSE NatToStr(x \div 1000) \o <<".">> \o FracToStr(x % 1000)

DigitVal(c) == CHOOSE d \in 0..9 : Digits[d + 1] = c

RECURSIVE StrToNat(_)
StrToNat(s) ==
    IF s = <<>> THEN 0
    ELSE 10 * StrToNat(SubSeq(s, 1, Len(s) - 1)) + DigitVal(s[Len(s)])

\* the fraction digits (at most three) as thousandths
StrToFrac(s) ==
    (IF Len(s) >= 1 THEN 100 * DigitVal(s[1]) ELSE 0)
    + (IF Len(s) >= 2 THEN 10 * DigitVal(s[2]) ELSE 0)
    + (IF Len(s) >= 3 THEN DigitVal(s[3]) ELSE 0)

\* tonumber(s) of a stored fill, in thousandths
LuaToNumber(s) ==
    IF \E i \in 1..Len(s) : s[i] = "."
    THEN LET dot == CHOOSE i \in 1..Len(s) : s[i] = "."
         IN  1000 * StrToNat(SubSeq(s, 1, dot - 1))
             + StrToFrac(SubSeq(s, dot + 1, Len(s)))
    ELSE 1000 * StrToNat(s)

\* ------------------------------------------------------ the Counter Store
NoExpiry == 0 - 1

\* a key is gone once the store's clock has passed its expiry
Live(s, name, t) ==
    /\ name \in DOMAIN s
    /\ (s[name].exp = NoExpiry \/ t <= s[name].exp)

\* redis.call('GET', name): nil when the key is absent or expired
RedisGet(s, name, t) ==
    IF Live(s, name, t) THEN [found |-> TRUE, val |-> s[name].val]
    ELSE [found |-> FALSE, val |-> <<>>]

\* redis.call('SET', name, val): the value, and no expiry
RedisSet(s, name, val) ==
    [n \in (DOMAIN s) \cup {name} |->
        IF n = name THEN [val |-> val, exp |-> NoExpiry] ELSE s[n]]

\* redis.call('EXPIRE', name, ttl)
RedisExpire(s, name, ttl, t) ==
    IF name \in DOMAIN s THEN [s EXCEPT ![name].exp = t + 1000 * ttl] ELSE s

\* the fields that outlive time t
Purge(s, t) ==
    [n \in {m \in DOMAIN s : Live(s, m, t)} |-> s[n]]

\* ------------------------------------------------------------ the limiter
Max(a, b) == IF a >= b THEN a ELSE b

\* ((capacity as f64) / leak_per_sec).ceil() as i64 + 1; 0.0 / 0.0 is NaN,
\* and NaN as i64 is 0
TtlSecs(cap, leak) ==
    IF leak = 0 THEN 1
    ELSE (cap \div leak) + (IF cap % leak = 0 THEN 0 ELSE 1) + 1

\* local fill, local last: what the script reads
ReadFill(s, base, t) ==
    LET g == RedisGet(s, FillKey(base), t)
    IN  LuaToNumber(IF g.found THEN g.val ELSE <<"0">>)

\* mutant: the stored timestamp is not read
ReadLastNow(s, base, now_ms, t) == now_ms

ReadLast(s, base, now_ms, t) ==
    LET g == RedisGet(s, TsKey(base), t)
    IN  IF g.found THEN StrToNat(g.val) ELSE now_ms

\* mutant: elapsed_ms is not clamped
ElapsedSigned(now_ms, last) == now_ms - last

\* elapsed_ms, clamped at 0
Elapsed(now_ms, last) == Max(0, now_ms - last)

\* mutant: the bucket leaks at twice the rate
LeakedTwice(elapsed_ms, leak) == 2 * elapsed_ms * leak

\* mutant: an integer division, whole seconds only
LeakedWholeSeconds(elapsed_ms, leak) == (elapsed_ms \div 1000) * 1000 * leak

\* (elapsed_ms / 1000.0) * leak_per_sec, in thousandths
Leaked(elapsed_ms, leak) == elapsed_ms * leak

\* fill after the leak, clamped at 0
Decay(fill, leaked) == Max(0, fill - leaked)

\* mutant: fill > capacity, the unit asked for is not counted
OverWithoutUnit(fill, cap) == fill > 1000 * cap

\* mutant: (fill + 1) >= capacity
OverOffByOne(fill, cap) == fill + 1000 >= 1000 * cap

\* (fill + 1) > capacity
Over(fill, cap) == fill + 1000 > 1000 * cap

\* mutant: the deny branch leaves fill without an expiry
WriteDenyFillNoExpiry(s, base, fill, now_ms, ttl, t) ==
    LET s1 == RedisSet(s, TsKey(base), NatToStr(now_ms))
        s2 == RedisExpire(s1, TsKey(base), ttl, t)
    IN  RedisSet(s2, FillKey(base), LuaToString(fill))

\* mutant: a denied check stores now and keeps the fill it found in the store
WriteDenyStaleFill(s, base, fill, now_ms, ttl, t) ==
    LET s1 == RedisSet(s, TsKey(base), NatToStr(now_ms))
        s2 == RedisExpire(s1, TsKey(base), ttl, t)
        s3 == RedisSet(s2, FillKey(base), LuaToString(ReadFill(s, base, t)))
    IN  RedisExpire(s3, FillKey(base), ttl, t)

\* mutant: a denied check writes nothing
WriteDenyNothing(s, base, fill, now_ms, ttl, t) == s

\* the store after the deny branch
WriteDeny(s, base, fill, now_ms, ttl, t) ==
    LET s1 == RedisSet(s, TsKey(base), NatToStr(now_ms))
        s2 == RedisExpire(s1, TsKey(base), ttl, t)
        s3 == RedisSet(s2, FillKey(base), LuaToString(fill))
    IN  RedisExpire(s3, FillKey(base), ttl, t)

\* mutant: the allow branch stores the fill it read, without the new unit
WriteAllowNoIncrement(s, base, fill, now_ms, ttl, t) ==
    LET s1 == RedisSet(s, FillKey(base), LuaToString(fill))
        s2 == RedisExpire(s1, FillKey(base), ttl, t)
        s3 == RedisSet(s2, TsKey(base), NatToStr(now_ms))
    IN  RedisExpire(s3, TsKey(base), ttl, t)

\* the store after the allow branch
WriteAllow(s, base, fill, now_ms, ttl, t) ==
    LET s1 == RedisSet(s, FillKey(base), LuaToString(fill + 1000))
        s2 == RedisExpire(s1, FillKey(base), ttl, t)
        s3 == RedisSet(s2, TsKey(base), NatToStr(now_ms))
    IN  RedisExpire(s3, TsKey(base), ttl, t)

\* the script, evaluated by the store at its time t: the reply and the
\* store it leaves
LuaScript(s, base, cap, leak, now_ms, ttl, t) ==
    LET fill == Decay(ReadFill(s, base, t),
                      Leaked(Elapsed(now_ms, ReadLast(s, base, now_ms, t)), leak))
    IN  IF Over(fill, cap)
        THEN [ret |-> 0, store |-> WriteDeny(s, base, fill, now_ms, ttl, t)]
        ELSE [ret |-> 1, store |-> WriteAllow(s, base, fill, now_ms, ttl, t)]

\* what one evaluation leaves in the log
Entry(s, key, cap, leak, now_ms, t, ret, raced) ==
    [key   |-> key,
     raced |-> raced,
     now   |-> now_ms,
     at    |-> t,
     fresh |-> /\ ~RedisGet(s, FillKey(BucketKey(key)), t).found
               /\ ~RedisGet(s, TsKey(BucketKey(key)), t).found,
     seen  |-> Decay(ReadFill(s, BucketKey(key), t),
                     Leaked(Elapsed(now_ms,
                                    ReadLast(s, BucketKey(key), now_ms, t)),
                            leak)),
     ret   |-> ret]

\* ------------------------------------------------------------ the gateway
\* gateway instances sharing the store
Gateways == {1, 2}

Reqs == 1..MaxReqs

\* ProxyRequest.key as the caller sends it
RawKeys == {<<>>, <<" ">>, <<"a">>, <<" ", "b">>}

\* status codes a downstream answers with
DownStatuses == {200, 503}

\* Result<i64> of invoke_async, and no result yet
NoReply == [tag |-> "none", val |-> 0]

Ok(v) == [tag |-> "Ok", val |-> v]

Err == [tag |-> "Err", val |-> 0]

\* no downstream call was made
NoDown == [sent |-> FALSE, status |-> 0, read |-> FALSE, hdrs |-> <<>>,
           bytes |-> <<>>]

\* a request that has not arrived.  down: what the downstream call came to;
\* hdrs, bytes: the downstream headers and body bytes in the response
Idle ==
    [pc |-> "idle", gw |-> 0, raw |-> <<>>, now |-> 0, raced |-> FALSE,
     res |-> NoReply, body |-> FALSE, calls |-> 0, status |-> 0,
     error |-> "none", down |-> NoDown, hdrs |-> {}, bytes |-> <<>>]

\* ------------------------------------------------- the limiter on its own
\* the key of the checks
LimKeys == {<<"a">>}

\* how far a gateway's SystemTime::now() may lag the store's clock, ms: not
\* at all, by less than the second the expiry adds to the drain time, and
\* by more than the expiry
Lags == {0, 500, 2500}

\* main with the listener bound and served: AppState::new returned a state
\* at its first attempt
Serving ==
    [pc |-> "serve", attempt |-> 1, sleep |-> 0, conn |-> TRUE, up |-> TRUE]

\* AppState::new(rps, ..): capacity = rps, leak_per_sec = rps as f64
Init ==
    /\ \E rps \in 0..MaxRps : capacity = rps /\ leak_per_sec = rps
    /\ clock = 0
    /\ store = <<>>
    /\ log = <<>>
    /\ mutex = [i \in Gateways |-> 0]
    /\ reqs = [r \in Reqs |-> Idle]
    /\ boot = Serving

\* AppState::allow(key) by an idle gateway: the script's evaluation
Check(key, now_ms) ==
    /\ Len(log) < MaxChecks
    /\ LET r == LuaScript(store, BucketKey(key), capacity, leak_per_sec, now_ms,
                          TtlSecs(capacity, leak_per_sec), clock)
       IN  /\ store' = r.store
           /\ log' = Append(log, Entry(store, key, capacity, leak_per_sec,
                                       now_ms, clock, r.ret, FALSE))
    /\ UNCHANGED <<boot, capacity, leak_per_sec, clock, mutex, reqs>>

\* half a second passes; expired fields leave the store
Tick ==
    /\ clock < 500 * MaxTick
    /\ clock' = clock + 500
    /\ store' = Purge(store, clock + 500)
    /\ UNCHANGED <<boot, capacity, leak_per_sec, log, mutex, reqs>>

LimNext ==
    \/ \E key \in LimKeys : \E lag \in Lags :
          /\ clock - lag >= 0
          /\ Check(key, clock - lag)
    \/ Tick

LimiterSpec == Init /\ [][LimNext]_vars

\* ------------------------------------------------------ the gateway's steps
\* the requests that have entered allow(key) and are not evaluated yet
Pending(key) ==
    {q \in Reqs : reqs[q].pc \in {"lock", "invoke"} /\ Trim(reqs[q].raw) = key}

\* the response that ends a request; the task keeps what the caller sees
Respond(r, status, error, body, calls) ==
    reqs' = [reqs EXCEPT ![r] =
                [@ EXCEPT !.pc = "done", !.gw = 0, !.now = 0, !.raced = FALSE,
                          !.status = status, !.error = error, !.body = body,
                          !.calls = calls]]

\* proxy, of a process that serves, up to the limiter: the key is trimmed; an empty key is answered 400;
\* any other enters allow(), which reads the clock before it asks for the
\* connection.  A request takes the first free task, and gateway 2 is used
\* only after gateway 1 (the tasks are alike, and so are the gateways).
ProxyKey(r, gw, raw) ==
    /\ boot.pc = "serve"
    /\ reqs[r].pc = "idle"
    /\ \A q \in Reqs : q < r => reqs[q].pc # "idle"
    /\ Len(log) + Cardinality({q \in Reqs : reqs[q].pc \in {"lock", "invoke"}})
          < MaxEvals
    /\ \A g \in Gateways : g < gw => \E q \in Reqs : reqs[q].gw = g
    /\ IF Trim(raw) = <<>>
       THEN reqs' = [reqs EXCEPT ![r] =
                [@ EXCEPT !.pc = "done", !.raw = raw,
                          !.status = 400, !.error = "missing_key"]]
       ELSE reqs' = [reqs EXCEPT ![r] =
                [@ EXCEPT !.pc = "lock", !.gw = gw, !.raw = raw,
                          !.now = clock]]
    /\ UNCHANGED <<boot, capacity, leak_per_sec, clock, store, log, mutex>>

\* self.redis.lock().await
AllowLock(r) ==
    /\ reqs[r].pc = "lock"
    /\ mutex[reqs[r].gw] = 0
    /\ mutex' = [mutex EXCEPT ![reqs[r].gw] = r]
    /\ reqs' = [reqs EXCEPT ![r].pc = "invoke"]
    /\ UNCHANGED <<boot, capacity, leak_per_sec, clock, store, log>>

\* invoke_async: the store evaluates the script, in one step.  The requests
\* still waiting with the same key are marked: a check of theirs was under
\* way while this one was evaluated.
AllowInvoke(r) ==
    /\ reqs[r].pc = "invoke"
    /\ LET key == Trim(reqs[r].raw)
           out == LuaScript(store, BucketKey(key), capacity, leak_per_sec,
                            reqs[r].now, TtlSecs(capacity, leak_per_sec), clock)
       IN  /\ store' = out.store
           /\ log' = Append(log, Entry(store, key, capacity, leak_per_sec,
                                       reqs[r].now, clock, out.ret,
                                       reqs[r].raced))
           /\ reqs' = [q \in Reqs |->
                 IF q = r
                 THEN [reqs[q] EXCEPT !.pc = "reply", !.res = Ok(out.ret)]
                 ELSE IF q \in Pending(key)
                      THEN [reqs[q] EXCEPT !.raced = TRUE]
                      ELSE reqs[q]]
    /\ UNCHANGED <<boot, capacity, leak_per_sec, clock, mutex>>

\* invoke_async with the Counter Store unavailable: the script is not
\* evaluated, or its reply does not arrive
AllowFail(r) ==
    /\ reqs[r].pc \in {"invoke", "reply"}
    /\ reqs[r].res # Err
    /\ reqs' = [reqs EXCEPT ![r].pc = "reply", ![r].res = Err]
    /\ UNCHANGED <<boot, capacity, leak_per_sec, clock, store, log, mutex>>

\* mutant: Ok(_) => true
AllowedAnyOk(res) == res.tag = "Ok"

\* mutant: Err(_) => true
AllowedFailOpen(res) == res.tag = "Err" \/ (res.tag = "Ok" /\ res.val = 1)

\* match .. { Ok(1) => true, Ok(_) => false, Err(_) => false }
Allowed(res) == res.tag = "Ok" /\ res.val = 1

\* mutant: a failed call is sent again
ForwardRetry(body, sent, dstatus, read) ==
    IF ~sent THEN [status |-> 502, error |-> "downstream_error", calls |-> 2]
    ELSE IF ~read
         THEN [status |-> 502, error |-> "downstream_read_error", calls |-> 1]
         ELSE [status |-> dstatus, error |-> "none", calls |-> 1]

\* the forwarder: the match on req.body sends once in either arm, then the
\* relay.  sent: the call completed; read: its body could be read
Forward(body, sent, dstatus, read) ==
    LET n == IF body THEN 1 ELSE 1
    IN  IF ~sent THEN [status |-> 502, error |-> "downstream_error", calls |-> n]
        ELSE IF ~read
             THEN [status |-> 502, error |-> "downstream_read_error", calls |-> n]
             ELSE [status |-> dstatus, error |-> "none", calls |-> n]

\* mutant: every downstream header is copied
RelayAllHeaders(dh) == {dh[i] : i \in 1..Len(dh)}

\* for (name, value) in downstream.headers().iter(): a header named
\* content-type, content-length or cache-control is inserted into
\* resp_headers, where insert replaces an earlier value of the same name
RelayHeaders(dh) ==
    {dh[i] : i \in {j \in 1..Len(dh) :
        /\ dh[j][1] \in {"content-type", "content-length", "cache-control"}
        /\ \A k \in (j + 1)..Len(dh) : dh[k][1] # dh[j][1]}}

\* mutant: a downstream error status is answered as the gateway's own
StatusFromU16Masked(n) == IF n >= 400 THEN 502 ELSE n

\* StatusCode::from_u16(downstream.status().as_u16())
\*     .unwrap_or(StatusCode::BAD_GATEWAY)
StatusFromU16(n) == IF n >= 100 /\ n <= 999 THEN n ELSE 502

\* the headers and the body of the downstream's answer in the gateway runs
DownHeaders == << <<"content-type", "v1">>, <<"x-internal-debug", "v1">> >>

DownBytes == <<104, 105>>

\* what a downstream call can come to: the call fails, or it completes with
\* a status and headers and its body can be read or not
DownOutcomes ==
    {NoDown}
        \cup {[sent |-> TRUE, status |-> d, read |-> rd, hdrs |-> DownHeaders,
                bytes |-> IF rd THEN DownBytes ELSE <<>>] :
                    d \in DownStatuses, rd \in BOOLEAN}

\* allow() returns false and drops the connection guard; proxy answers 429
ProxyDeny(r) ==
    /\ reqs[r].pc = "reply"
    /\ ~Allowed(reqs[r].res)
    /\ mutex' = [mutex EXCEPT ![reqs[r].gw] = 0]
    /\ Respond(r, 429, "rate_limited", FALSE, 0)
    /\ UNCHANGED <<boot, capacity, leak_per_sec, clock, store, log>>

\* allow() returns true and drops the connection guard; proxy forwards
ProxyForward(r, body, down) ==
    /\ reqs[r].pc = "reply"
    /\ Allowed(reqs[r].res)
    /\ mutex' = [mutex EXCEPT ![reqs[r].gw] = 0]
    /\ LET f == Forward(body, down.sent, StatusFromU16(down.status), down.read)
           relayed == f.error = "none"
       IN  reqs' = [reqs EXCEPT ![r] =
               [@ EXCEPT !.pc = "done", !.gw = 0, !.now = 0, !.raced = FALSE,
                         !.status = f.status, !.error = f.error,
                         !.body = body, !.calls = f.calls, !.down = down,
                         !.hdrs = IF relayed THEN RelayHeaders(down.hdrs)
                                  ELSE {},
                         !.bytes = IF relayed THEN down.bytes ELSE <<>>]]
    /\ UNCHANGED <<boot, capacity, leak_per_sec, clock, store, log>>

\* the response is out and the request is dropped: its task is free again
ProxyEnd(r) ==
    /\ reqs[r].pc = "done"
    /\ reqs' = [reqs EXCEPT ![r] = Idle]
    /\ UNCHANGED <<boot, capacity, leak_per_sec, clock, store, log, mutex>>

\* half a second passes
GwTick ==
    /\ clock < 500 * MaxGwTick
    /\ clock' = clock + 500
    /\ store' = Purge(store, clock + 500)
    /\ UNCHANGED <<boot, capacity, leak_per_sec, log, mutex, reqs>>

Next ==
    \/ \E r \in Reqs, gw \in Gateways, raw \in RawKeys : ProxyKey(r, gw, raw)
    \/ \E r \in Reqs : AllowLock(r)
    \/ \E r \in Reqs : AllowInvoke(r)
    \/ \E r \in Reqs : AllowFail(r)
    \/ \E r \in Reqs : ProxyDeny(r)
    \/ \E r \in Reqs, body \in BOOLEAN, down \in DownOutcomes :
          ProxyForward(r, body, down)
    \/ \E r \in Reqs : ProxyEnd(r)
    \/ GwTick

Spec == Init /\ [][Next]_vars

\* ------------------------------------------------ the forwarder in detail
\* one request at a time through one gateway, with the answers a
\* downstream can give: headers in wire order, allow-listed or not, with
\* repeated names; several statuses; an empty body and one with bytes
HeaderNames ==
    {"content-type", "content-length", "cache-control", "x-internal-debug"}

HeaderValues == {"v1", "v2"}

FwdHeaders ==
    UNION {[1..n -> HeaderNames \X HeaderValues] : n \in 0..MaxHeaders}

FwdStatuses == {200, 404, 502}

FwdBodies == {<<>>, <<0, 255>>}

\* the relay of the headers looks at the headers alone, and the relay of
\* the status and the body at neither: every header list comes with one
\* status and body, and every status and body with one header list
FwdOutcomes ==
    {NoDown}
        \cup {[sent |-> TRUE, status |-> 200, read |-> rd, hdrs |-> h,
                bytes |-> IF rd THEN DownBytes ELSE <<>>] :
                    rd \in BOOLEAN, h \in FwdHeaders}
        \cup {[sent |-> TRUE, status |-> d, read |-> rd, hdrs |-> DownHeaders,
                bytes |-> IF rd THEN b ELSE <<>>] :
                    d \in FwdStatuses, rd \in BOOLEAN, b \in FwdBodies}

FwdNext ==
    \/ \E raw \in RawKeys : ProxyKey(1, 1, raw)
    \/ AllowLock(1)
    \/ AllowInvoke(1)
    \/ AllowFail(1)
    \/ ProxyDeny(1)
    \/ \E body \in BOOLEAN, down \in FwdOutcomes : ProxyForward(1, body, down)
    \/ ProxyEnd(1)

ForwardSpec == Init /\ [][FwdNext]_vars

\* ------------------------------------------------------------- start-up
\* AppState::new gives up at this attempt
MaxAttempts == 30

\* the sleep after a failed attempt is BackoffMs * attempt
BackoffMs == 200

\* main sleeps this long after AppState::new returned an error
MainRetryMs == 300

\* main calls AppState::new(1, ..)
MainRps == 1

\* get_multiplexed_tokio_connection(): Ok when the store can be reached
Connect(up) == up

\* the arms of the match in AppState::new at attempt n
AfterConnect(ok, n) ==
    IF ok THEN "ok" ELSE IF n < MaxAttempts THEN "backoff" ELSE "err"

\* mutant: Err(_) => break
AfterNewAlwaysBind(ok) == "bind"

\* the arms of the match in main on AppState::new's result
AfterNew(ok) == IF ok THEN "bind" ELSE "retry"

\* main before its first call of AppState::new; the store may be out of reach
StartupInit ==
    /\ capacity = MainRps /\ leak_per_sec = MainRps
    /\ clock = 0
    /\ store = <<>>
    /\ log = <<>>
    /\ mutex = [i \in Gateways |-> 0]
    /\ reqs = [r \in Reqs |-> Idle]
    /\ \E u \in BOOLEAN :
          boot = [pc |-> "main", attempt |-> 0, sleep |-> 0, conn |-> FALSE,
                  up |-> u]

\* main calls AppState::new: let mut attempt = 0
BootNew ==
    /\ boot.pc = "main"
    /\ boot' = [boot EXCEPT !.pc = "loop", !.attempt = 0, !.sleep = 0]
    /\ UNCHANGED <<capacity, leak_per_sec, clock, store, log, mutex, reqs>>

\* one turn of the loop: attempt += 1 and the connection is tried.  Ok ends
\* new with a state and main breaks; Err before the last attempt sleeps;
\* Err at the last attempt ends new with the error, and main sleeps
BootConnect ==
    /\ boot.pc = "loop"
    /\ LET n == boot.attempt + 1
           ok == Connect(boot.up)
           arm == AfterConnect(ok, n)
       IN  boot' = [boot EXCEPT
                      !.attempt = n,
                      !.conn = ok,
                      !.pc = IF arm = "backoff" THEN "backoff"
                             ELSE AfterNew(arm = "ok"),
                      !.sleep = IF arm = "backoff" THEN BackoffMs * n
                                ELSE IF arm = "err" THEN MainRetryMs ELSE 0]
    /\ UNCHANGED <<capacity, leak_per_sec, clock, store, log, mutex, reqs>>

\* the sleep after a failed attempt is over
BootBackoff ==
    /\ boot.pc = "backoff"
    /\ boot' = [boot EXCEPT !.pc = "loop", !.sleep = 0]
    /\ UNCHANGED <<capacity, leak_per_sec, clock, store, log, mutex, reqs>>

\* main's sleep is over: the loop of main calls AppState::new again
BootRetry ==
    /\ boot.pc = "retry"
    /\ boot' = [boot EXCEPT !.pc = "main", !.sleep = 0]
    /\ UNCHANGED <<capacity, leak_per_sec, clock, store, log, mutex, reqs>>

\* the router is built around the state, the listener is bound and served
BootServe ==
    /\ boot.pc = "bind"
    /\ boot' = [boot EXCEPT !.pc = "serve"]
    /\ UNCHANGED <<capacity, leak_per_sec, clock, store, log, mutex, reqs>>

\* the Counter Store comes into reach or goes out of it
StoreFlip ==
    /\ boot' = [boot EXCEPT !.up = ~boot.up]
    /\ UNCHANGED <<capacity, leak_per_sec, clock, store, log, mutex, reqs>>

BootStep == BootNew \/ BootConnect \/ BootBackoff \/ BootRetry \/ BootServe

StartupNext ==
    \/ BootNew
    \/ BootConnect
    \/ BootBackoff
    \/ BootRetry
    \/ BootServe
    \/ StoreFlip
    \/ \E raw \in RawKeys : ProxyKey(1, 1, raw)
    \/ AllowLock(1)
    \/ AllowInvoke(1)
    \/ AllowFail(1)
    \/ ProxyDeny(1)
    \/ \E body \in BOOLEAN, down \in DownOutcomes : ProxyForward(1, body, down)
    \/ ProxyEnd(1)

\* main is the one task of start-up and each of its sleeps ends
StartupSpec == StartupInit /\ [][StartupNext]_vars /\ WF_vars(BootStep)

\* ================================================================ claims
\* the evaluations of one key, in the store's order
KeyLog(key) == SelectSeq(log, LAMBDA e : e.key = key)

\* the keys that have been checked
LoggedKeys == {log[i].key : i \in 1..Len(log)}

\* ceil(capacity / leak_rate) + 1 seconds, in ms (leak_rate > 0)
ExpiryMs ==
    1000 * (CHOOSE n \in 0..(capacity + 1) :
                n * leak_per_sec >= capacity /\ (n - 1) * leak_per_sec < capacity)
    + 1000

\* a key that is empty or all whitespace
Blank(raw) == \A i \in 1..Len(raw) : raw[i] \in White

\* ---------------------------------------------------------------- C1
\* j is the evaluation that follows i on the same key, was under way while
\* i was evaluated, found the bucket one unit below capacity at i, and no
\* time passed between the two
C1_Case(i, j) ==
    /\ i < j
    /\ log[i].key = log[j].key
    /\ \A m \in (i + 1)..(j - 1) : log[m].key # log[i].key
    /\ log[j].raced
    /\ log[i].seen = 1000 * (capacity - 1)
    /\ log[j].now = log[i].now
    /\ log[j].at = log[i].at

\* C1: of two concurrent checks of a key whose bucket is one unit below
\* capacity, with no time elapsing, the one evaluated first is allowed and
\* the other denied: exactly one allow and one deny, whichever comes first.
C1_ExactlyOneAdmitted ==
    \A i, j \in 1..Len(log) :
        C1_Case(i, j) => log[i].ret = 1 /\ log[j].ret = 0

\* two requests of different gateways, both just evaluated in that case,
\* on a bucket that held one of two units
C1_Witness ==
    /\ capacity = 2
    /\ Len(log) = 3
    /\ C1_Case(2, 3)
    /\ \E r1, r2 \in Reqs :
          /\ reqs[r1].pc = "reply" /\ reqs[r2].pc = "reply"
          /\ reqs[r1].gw # reqs[r2].gw
          /\ reqs[r1].res = Ok(1) /\ reqs[r2].res = Ok(0)

\* ---------------------------------------------------------------- C2
\* entries i..j of the key's log carry one now_ms, i found no stored state
\* and the later ones found the state i left
C2_Run(kl, i, j) ==
    /\ i <= j
    /\ kl[i].fresh
    /\ \A m \in (i + 1)..j : kl[m].now = kl[i].now /\ ~kl[m].fresh

\* C2: from a key with no stored state, checks carrying the same now_ms are
\* allowed up to the capacity-th and denied from the (capacity+1)-th on.
C2_FirstCapacityAdmitted ==
    \A key \in LoggedKeys :
        LET kl == KeyLog(key)
        IN  \A i, j \in 1..Len(kl) :
                C2_Run(kl, i, j)
                    => kl[j].ret = (IF j - i + 1 <= capacity THEN 1 ELSE 0)

\* capacity 2: two allowed and the third denied
C2_Witness ==
    /\ capacity = 2
    /\ Len(log) >= 3
    /\ C2_Run(log, 1, 3)
    /\ log[1].ret = 1 /\ log[2].ret = 1 /\ log[3].ret = 0

\* ---------------------------------------------------------------- C3
\* i is denied, i+1 is the key's next check and comes at least 1/leak_rate
\* seconds later
C3_Waited(kl, i) ==
    /\ i + 1 <= Len(kl)
    /\ kl[i].ret = 0
    /\ leak_per_sec > 0
    /\ (kl[i + 1].now - kl[i].now) * leak_per_sec >= 1000

\* C3 as stated: after a denial and a wait of at least 1/leak_rate seconds
\* the next check is allowed and the one right after it, at the same
\* instant, is denied.
C3_ExactlyOneAfterWait ==
    \A key \in LoggedKeys :
        LET kl == KeyLog(key)
        IN  \A i \in 1..Len(kl) :
                (C3_Waited(kl, i) /\ i + 2 <= Len(kl)
                    /\ kl[i + 2].now = kl[i + 1].now)
                    => kl[i + 1].ret = 1 /\ kl[i + 2].ret = 0

\* C3 amended: after a denial and a wait of at least 1/leak_rate seconds
\* the next check is allowed; the one right after it, at the same instant,
\* is denied when the wait was exactly 1/leak_rate seconds and the key's
\* state has not expired.
C3_AtLeastOneAfterWait ==
    \A key \in LoggedKeys :
        LET kl == KeyLog(key)
        IN  \A i \in 1..Len(kl) :
                C3_Waited(kl, i)
                    => /\ kl[i + 1].ret = 1
                       /\ (/\ i + 2 <= Len(kl)
                           /\ kl[i + 2].now = kl[i + 1].now
                           /\ (kl[i + 1].now - kl[i].now) * leak_per_sec = 1000
                           /\ ~kl[i + 1].fresh /\ ~kl[i + 2].fresh)
                              => kl[i + 2].ret = 0

\* capacity 2: a denial, a wait of exactly half a second, one allowed and
\* the next denied
C3_Witness ==
    /\ capacity = 2
    /\ Len(log) = 5
    /\ C3_Waited(log, 3)
    /\ log[4].now - log[3].now = 500
    /\ log[5].now = log[4].now
    /\ ~log[4].fresh /\ ~log[5].fresh
    /\ log[4].ret = 1 /\ log[5].ret = 0

\* ---------------------------------------------------------------- C4
C4_Times == <<0, 0, 0, 500, 500>>

C4_Answers == <<1, 1, 0, 1, 0>>

\* C4: with capacity 2 and leak_rate 2, the checks of a fresh key at
\* now_ms = 0, 0, 0, 500, 500 are answered allow, allow, deny, allow, deny
\* (the checks follow one another: the key's state is in the store from the
\* first check on).
C4_Scenario ==
    (capacity = 2 /\ leak_per_sec = 2)
        => \A n \in 1..Len(log) :
               (/\ n <= 5
                /\ \A m \in 1..n : log[m].now = C4_Times[m]
                /\ \A m \in 2..n : ~log[m].fresh)
                   => log[n].ret = C4_Answers[n]

\* the five checks have been made
C4_Witness ==
    /\ capacity = 2 /\ leak_per_sec = 2
    /\ Len(log) = 5
    /\ \A m \in 1..5 : log[m].key = <<"a">> /\ log[m].now = C4_Times[m]
    /\ log[5].ret = 0 /\ log[4].ret = 1

\* ---------------------------------------------------------------- C5
\* the two store fields of a key: rl:<key>:fill and rl:<key>:ts
FieldsOf(key) ==
    {<<"r", "l", ":">> \o key \o <<":", "f", "i", "l", "l">>,
     <<"r", "l", ":">> \o key \o <<":", "t", "s">>}

\* keys, some made of the separators the field names are built with
ProbeKeys ==
    ({Trim(raw) : raw \in RawKeys} \ {<<>>})
        \cup {<<"a", ":", "t", "s">>, <<"a", ":", "f", "i", "l", "l">>,
              <<":", "f", "i", "l", "l">>, <<"a", ":">>, <<"a", " ", "b">>}

RECURSIVE Replay(_, _, _)
\* the answers to the evaluations kl[i..] made on their own, from store s
Replay(kl, i, s) ==
    IF i > Len(kl) THEN <<>>
    ELSE LET out == LuaScript(s, BucketKey(kl[i].key), capacity, leak_per_sec,
                              kl[i].now, TtlSecs(capacity, leak_per_sec),
                              kl[i].at)
         IN  <<out.ret>> \o Replay(kl, i + 1, out.store)

\* every check of a key was answered as if the checks of the other keys had
\* never been made, and distinct keys have distinct fields
C5_Independent ==
    /\ \A key \in LoggedKeys :
          LET kl == KeyLog(key)
          IN  Replay(kl, 1, <<>>) = [i \in 1..Len(kl) |-> kl[i].ret]
    /\ \A k1, k2 \in ProbeKeys :
          /\ {FillKey(BucketKey(k1)), TsKey(BucketKey(k1))} = FieldsOf(k1)
          /\ k1 # k2 => FieldsOf(k1) \cap FieldsOf(k2) = {}

\* an evaluation for a key writes that key's two fields and no other
C5_Frame ==
    Len(log') = Len(log) + 1
        => LET own == FieldsOf(log'[Len(log')].key)
           IN  /\ DOMAIN store' = (DOMAIN store) \cup own
               /\ \A n \in DOMAIN store : n \notin own => store'[n] = store[n]

\* C5: checks of distinct trimmed keys never interfere: a check touches only
\* its key's two fields, its answer does not depend on the checks of other
\* keys, and no two keys share a field.
C5_NoInterference == []C5_Independent /\ [][C5_Frame]_vars

\* both keys hold state, and a check of "b" came between two of "a"
C5_Witness ==
    /\ Len(log) = 3
    /\ log[1].key = <<"a">> /\ log[2].key = <<"b">> /\ log[3].key = <<"a">>
    /\ capacity = 1
    /\ log[1].ret = 1 /\ log[2].ret = 1 /\ log[3].ret = 0
    /\ DOMAIN store = FieldsOf(<<"a">>) \cup FieldsOf(<<"b">>)

\* ---------------------------------------------------------------- C6
\* a blank key is answered 400 missing_key, with no reply of the store and
\* no downstream call, and no evaluation or field exists for a blank key
C6_Rejected ==
    /\ \A r \in Reqs :
          (reqs[r].pc # "idle" /\ Blank(reqs[r].raw))
              => /\ reqs[r].pc = "done"
                 /\ reqs[r].status = 400
                 /\ reqs[r].error = "missing_key"
                 /\ reqs[r].res = NoReply
                 /\ reqs[r].calls = 0
    /\ \A i \in 1..Len(log) : ~Blank(log[i].key)
    /\ \A raw \in RawKeys : Blank(raw) => FieldsOf(raw) \cap DOMAIN store = {}

\* the step that takes a request with a blank key touches neither the
\* store nor the connection
C6_Untouched ==
    \A r \in Reqs :
        (reqs[r].pc = "idle" /\ reqs'[r].pc # "idle" /\ Blank(reqs'[r].raw))
            => store' = store /\ log' = log /\ mutex' = mutex

\* C6: a request whose key is empty or whitespace-only is answered 400
\* missing_key; the limiter is not invoked, the store is not accessed and
\* no downstream call is made.
C6_BlankKey == []C6_Rejected /\ [][C6_Untouched]_vars

\* a whitespace-only key was answered while the store held another key
C6_Witness ==
    /\ store # <<>>
    /\ \E r \in Reqs :
          /\ reqs[r].pc = "done"
          /\ reqs[r].raw = <<" ">>
          /\ reqs[r].status = 400

\* ---------------------------------------------------------------- C7
\* C7: a request whose check returned deny is answered 429 rate_limited and
\* makes no downstream call; a downstream call is made only by a request
\* whose check returned allow.
C7_DeniedNeverForwarded ==
    \A r \in Reqs :
        /\ (reqs[r].pc = "done" /\ reqs[r].res # NoReply /\ reqs[r].res # Ok(1))
              => /\ reqs[r].status = 429
                 /\ reqs[r].error = "rate_limited"
                 /\ reqs[r].calls = 0
        /\ reqs[r].calls > 0 => reqs[r].res = Ok(1)

\* the script answered 0 and the request was answered 429
C7_Witness ==
    \E r \in Reqs :
        /\ reqs[r].pc = "done"
        /\ reqs[r].res = Ok(0)
        /\ reqs[r].status = 429
        /\ reqs[r].calls = 0

\* ---------------------------------------------------------------- C8
\* C8: when the store does not answer, or answers anything but 1, the
\* request (its key not blank) is answered 429, not 5xx, and is not
\* forwarded.
C8_FailClosed ==
    \A r \in Reqs :
        (/\ reqs[r].pc = "done"
         /\ ~Blank(reqs[r].raw)
         /\ (reqs[r].res.tag # "Ok" \/ reqs[r].res.val # 1))
            => /\ reqs[r].status = 429
               /\ reqs[r].status < 500
               /\ reqs[r].calls = 0

\* the store did not answer and the request was answered 429
C8_Witness ==
    \E r \in Reqs :
        /\ reqs[r].pc = "done"
        /\ reqs[r].res = Err
        /\ reqs[r].status = 429
        /\ Len(log) = 0

\* ---------------------------------------------------------------- C9
\* C9: an admitted request makes exactly one downstream call, whatever
\* comes of it, and no request makes more than one.
C9_OneDownstreamCall ==
    \A r \in Reqs :
        /\ (reqs[r].pc = "done" /\ reqs[r].res = Ok(1)) => reqs[r].calls = 1
        /\ reqs[r].calls <= 1

\* a request with a body whose call failed, and one without a body whose
\* response could not be read
C9_Witness ==
    \E r1, r2 \in Reqs :
        /\ reqs[r1].pc = "done" /\ reqs[r1].body
        /\ reqs[r1].error = "downstream_error" /\ reqs[r1].calls = 1
        /\ reqs[r2].pc = "done" /\ ~reqs[r2].body
        /\ reqs[r2].error = "downstream_read_error" /\ reqs[r2].calls = 1

\* ---------------------------------------------------------------- C10
\* C10: the two fields of a key carry one expiry, that of the key's last
\* check plus ceil(capacity / leak_rate) + 1 seconds, so neither is present
\* without the other; once the key has been idle for longer than that both
\* are gone, and the next check finds nothing, is allowed and stores 1.
C10_Expiry ==
    \A key \in LoggedKeys :
        LET kl == KeyLog(key)
            last == kl[Len(kl)]
            f == FillKey(BucketKey(key))
            t == TsKey(BucketKey(key))
        IN  /\ Live(store, f, clock) <=> Live(store, t, clock)
            /\ Live(store, f, clock) => store[f].exp = store[t].exp
            /\ leak_per_sec > 0 =>
                  /\ Live(store, f, clock) => store[f].exp = last.at + ExpiryMs
                  /\ clock <= last.at + ExpiryMs => Live(store, f, clock)
                  /\ clock > last.at + ExpiryMs
                        => ~Live(store, f, clock) /\ ~Live(store, t, clock)
                  /\ \A i \in 2..Len(kl) :
                        kl[i].at > kl[i - 1].at + ExpiryMs
                            => kl[i].fresh /\ kl[i].seen = 0 /\ kl[i].ret = 1
                  /\ (last.fresh /\ Live(store, f, clock))
                        => store[f].val = <<"1">>

\* a key was checked, left alone for longer than its expiry, and checked
\* again
C10_Witness ==
    /\ capacity = 2
    /\ Len(log) = 4
    /\ log[3].ret = 0
    /\ log[4].at > log[3].at + 2000
    /\ log[4].fresh /\ log[4].ret = 1
    /\ store[FillKey(BucketKey(<<"a">>))].val = <<"1">>

\* C11: within a gateway instance a check for key B never has to wait for an
\* unfinished check for a different key A: no request waits for the
\* connection while a request of the same gateway with another key holds it.
C11_NoWaitAcrossKeys ==
    \A r \in Reqs : \A q \in Reqs :
        (/\ reqs[r].pc = "lock"
         /\ reqs[q].pc \in {"invoke", "reply"}
         /\ mutex[reqs[r].gw] = q)
            => Trim(reqs[q].raw) = Trim(reqs[r].raw)

\* C12: a response carries only downstream headers named content-type,
\* content-length or cache-control, each as the downstream sent it; any
\* other downstream header, x-internal-debug among them, is dropped whatever
\* its value; and the gateway's own error responses (400, 429, 502) carry no
\* downstream header.
C12_HeaderAllowList ==
    \A r \in Reqs :
        reqs[r].pc = "done" =>
            /\ \A h \in reqs[r].hdrs :
                  /\ h[1] \in {"content-type", "content-length",
                               "cache-control"}
                  /\ h[1] # "x-internal-debug"
                  /\ \E i \in 1..Len(reqs[r].down.hdrs) :
                        reqs[r].down.hdrs[i] = h
            /\ reqs[r].error # "none" =>
                  /\ reqs[r].status \in {400, 429, 502}
                  /\ reqs[r].hdrs = {}

\* a downstream answer with x-internal-debug and cache-control is relayed
\* with cache-control alone
C12_Witness ==
    /\ reqs[1].pc = "done"
    /\ reqs[1].error = "none"
    /\ reqs[1].down.hdrs
          = << <<"x-internal-debug", "v2">>, <<"cache-control", "v1">> >>
    /\ reqs[1].hdrs = {<<"cache-control", "v1">>}

\* C13: an admitted request ends in exactly one of three ways: the
\* downstream call does not complete and the answer is 502 downstream_error;
\* it completes and its body cannot be read, and the answer is 502
\* downstream_read_error; it completes normally, and the answer has the
\* downstream's status and the downstream's body bytes, both unchanged.
C13_ForwardOutcome ==
    \A r \in Reqs :
        (reqs[r].pc = "done" /\ reqs[r].res = Ok(1)) =>
            LET d == reqs[r].down
            IN  /\ ~d.sent =>
                      /\ reqs[r].status = 502
                      /\ reqs[r].error = "downstream_error"
                /\ (d.sent /\ ~d.read) =>
                      /\ reqs[r].status = 502
                      /\ reqs[r].error = "downstream_read_error"
                /\ (d.sent /\ d.read) =>
                      /\ reqs[r].status = d.status
                      /\ reqs[r].bytes = d.bytes
                      /\ reqs[r].error = "none"

\* the downstream itself answers 502 with a body: the answer is relayed as
\* the downstream's, not as a gateway error
C13_Witness ==
    /\ reqs[1].pc = "done"
    /\ reqs[1].res = Ok(1)
    /\ reqs[1].down.sent /\ reqs[1].down.read
    /\ reqs[1].down.status = 502
    /\ reqs[1].status = 502
    /\ reqs[1].error = "none"
    /\ reqs[1].bytes = <<0, 255>>

\* C14: the process serves no request before a connection to the Counter
\* Store exists: a connection is established only while the store is in
\* reach; AppState::new sleeps 200 ms x attempt after each of its failed
\* attempts 1..29 and returns the error at the 30th; main then sleeps and
\* calls AppState::new again, without end; the listener is served only with
\* a state that holds a connection.
C14_Safe ==
    /\ boot.pc \in {"bind", "serve"} => boot.conn
    /\ \A r \in Reqs : reqs[r].pc # "idle" => (boot.pc = "serve" /\ boot.conn)
    /\ boot.attempt <= 30
    /\ boot.pc = "backoff" =>
          /\ boot.attempt \in 1..29
          /\ boot.sleep = 200 * boot.attempt
          /\ ~boot.conn
    /\ boot.pc = "retry" => (boot.attempt = 30 /\ ~boot.conn)

C14_Step ==
    /\ (~boot.conn /\ boot'.conn) => boot.up
    /\ boot.pc = "backoff" => boot'.pc \in {"backoff", "loop"}
    /\ (boot.pc = "loop" /\ boot'.pc = "backoff") =>
          boot'.attempt = boot.attempt + 1
    /\ boot.pc = "retry" => boot'.pc \in {"retry", "main"}
    /\ boot.pc = "main" => boot'.pc \in {"main", "loop"}
    /\ boot.pc = "serve" => boot'.pc = "serve"

\* ... and if the store is in reach from some time on, the process
\* eventually serves.
C14_Startup ==
    /\ []C14_Safe
    /\ [][C14_Step]_vars
    /\ (<>[](boot.up)) => <>(boot.pc = "serve")

\* the process serves a request with the connection it got at the 30th
\* attempt, after 29 sleeps
C14_Witness ==
    /\ boot.pc = "serve"
    /\ boot.attempt = 30
    /\ boot.conn
    /\ reqs[1].pc = "done"
    /\ reqs[1].status = 200

\* C15: every check writes the store.  With fill and last_update_ms as the
\* store held them (0 and now for a key not found) and
\* decayed = max(0, fill - max(0, now - last_update_ms) / 1000 * leak_rate):
\* a denied check stores decayed, an allowed check stores decayed + 1, and
\* either stores now as last_update_ms and gives both fields a fresh expiry
\* of the same length, counted from the time of the check.
C15_Step ==
    log' # log =>
        LET e == log'[Len(log')]
            f == FillKey(BucketKey(e.key))
            t == TsKey(BucketKey(e.key))
            fill0 == IF Live(store, f, clock)
                     THEN LuaToNumber(store[f].val) ELSE 0
            last0 == IF Live(store, t, clock)
                     THEN StrToNat(store[t].val) ELSE e.now
            elapsed == IF e.now > last0 THEN e.now - last0 ELSE 0
            decayed == IF fill0 > elapsed * leak_per_sec
                       THEN fill0 - elapsed * leak_per_sec ELSE 0
        IN  /\ e.ret \in {0, 1}
            /\ f \in DOMAIN store' /\ t \in DOMAIN store'
            /\ LuaToNumber(store'[f].val) = decayed + 1000 * e.ret
            /\ StrToNat(store'[t].val) = e.now
            /\ store'[f].exp = store'[t].exp
            /\ store'[f].exp >= clock + 1000
            /\ leak_per_sec > 0 => store'[f].exp = clock + ExpiryMs

C15_Persist == [][C15_Step]_vars

\* capacity 1: a check at 500 ms finds fill 1, is denied, and leaves the
\* decayed fill 0.5 and the timestamp 500
C15_Witness ==
    /\ capacity = 1
    /\ Len(log) = 2
    /\ log[1].ret = 1 /\ log[2].ret = 0
    /\ log[2].now = 500
    /\ FillKey(BucketKey(<<"a">>)) \in DOMAIN store
    /\ store[FillKey(BucketKey(<<"a">>))].val = <<"0", ".", "5">>
    /\ store[TsKey(BucketKey(<<"a">>))].val = <<"5", "0", "0">>

\* C16: whatever the order of the now_ms values, a check never leaks a
\* negative amount: the fill it decides on is at most the fill the store
\* held, it is that fill when now_ms is earlier than the stored
\* last_update_ms, and the fill the check stores is at most the fill the
\* store held plus 1.
C16_Step ==
    log' # log =>
        LET e == log'[Len(log')]
            f == FillKey(BucketKey(e.key))
            t == TsKey(BucketKey(e.key))
            fill0 == IF Live(store, f, clock)
                     THEN LuaToNumber(store[f].val) ELSE 0
        IN  /\ e.seen >= 0
            /\ e.seen <= fill0
            /\ (Live(store, t, clock) /\ e.now < StrToNat(store[t].val))
                  => e.seen = fill0
            /\ f \in DOMAIN store'
            /\ LuaToNumber(store'[f].val) <= fill0 + 1000
            /\ LuaToNumber(store'[f].val) >= e.seen

C16_ClampedElapsed == [][C16_Step]_vars

\* a check with now_ms 0 after a check with now_ms 500: nothing leaks, the
\* second unit is added to the first
C16_Witness ==
    /\ capacity = 2
    /\ Len(log) = 2
    /\ log[1].now = 500 /\ log[2].now = 0
    /\ ~log[2].fresh
    /\ log[2].seen = 1000
    /\ log[2].ret = 1
    /\ FillKey(BucketKey(<<"a">>)) \in DOMAIN store
    /\ store[FillKey(BucketKey(<<"a">>))].val = <<"2">>

\* C17: in every reachable state of the store, the fill stored for a key is
\* at least 0 and at most capacity, and so is the fill a check would read.
C17_FillBounds ==
    \A key \in LoggedKeys :
        LET f == FillKey(BucketKey(key))
        IN  /\ f \in DOMAIN store =>
                  /\ LuaToNumber(store[f].val) >= 0
                  /\ LuaToNumber(store[f].val) <= 1000 * capacity
            /\ ReadFill(store, BucketKey(key), clock) >= 0
            /\ ReadFill(store, BucketKey(key), clock) <= 1000 * capacity

\* the bucket is full and a further check, with an earlier now_ms, was
\* denied: the stored fill is the capacity
C17_Witness ==
    /\ capacity = 2
    /\ Len(log) = 3
    /\ log[3].ret = 0
    /\ log[3].now < log[2].now
    /\ FillKey(BucketKey(<<"a">>)) \in DOMAIN store
    /\ LuaToNumber(store[FillKey(BucketKey(<<"a">>))].val) = 2000

\* C18 as stated: for the checks of one key, over any stretch of them whose
\* now_ms values do not decrease, the number of allowed checks is at most
\* capacity + leak_rate * (t2 - t1) / 1000, with t1 and t2 the now_ms of the
\* first and the last check of the stretch, however many checks are denied.
C18_RateBound ==
    \A key \in LoggedKeys :
        LET kl == KeyLog(key)
        IN  \A i \in 1..Len(kl) : \A j \in i..Len(kl) :
                (\A k \in i..(j - 1) : kl[k].now <= kl[k + 1].now) =>
                    1000 * Cardinality({m \in i..j : kl[m].ret = 1})
                        <= 1000 * capacity
                           + leak_per_sec * (kl[j].now - kl[i].now)

\* C18: the bound holds over every such stretch in which no check after the
\* first finds the key's state expired.  (Every sequence of checks is looked
\* at in the state its last check leaves, before the clock moves on.)
C18_RateBoundUnexpired ==
    \A key \in LoggedKeys :
        LET kl == KeyLog(key)
        IN  clock = kl[Len(kl)].at =>
            \A i \in 1..Len(kl) : \A j \in i..Len(kl) :
                (/\ \A k \in i..(j - 1) : kl[k].now <= kl[k + 1].now
                 /\ \A k \in (i + 1)..j : ~kl[k].fresh) =>
                    1000 * Cardinality({m \in i..j : kl[m].ret = 1})
                        <= 1000 * capacity
                           + leak_per_sec * (kl[j].now - kl[i].now)

\* capacity 2, leak 2: three of five checks within half a second are
\* allowed, which is the bound, and two are denied
C18_Witness ==
    /\ capacity = 2
    /\ Len(log) = 5
    /\ \A i \in 1..4 : log[i].now <= log[i + 1].now /\ ~log[i + 1].fresh
    /\ log[1].now = 0 /\ log[5].now = 500
    /\ Cardinality({m \in 1..5 : log[m].ret = 1}) = 3

\* the sequence kl without its d-th element
Without(kl, d) == SubSeq(kl, 1, d - 1) \o SubSeq(kl, d + 1, Len(kl))

\* the now_ms values of kl do not decrease
NonDecreasing(kl) == \A k \in 1..(Len(kl) - 1) : kl[k].now <= kl[k + 1].now

\* no two consecutive checks of kl are further apart, by the store's clock,
\* than the expiry: no check of kl after the first finds the state expired
Unexpired(kl) ==
    \A k \in 1..(Len(kl) - 1) :
        kl[k + 1].at <= kl[k].at + 1000 * TtlSecs(capacity, leak_per_sec)

\* C19 as stated: for the checks of a key with non-decreasing now_ms, made
\* from an empty store, the checks other than a denied one are answered the
\* same when that denied check is left out.
C19_DeniedTransparent ==
    \A key \in LoggedKeys :
        LET kl == KeyLog(key)
        IN  NonDecreasing(kl) =>
                \A d \in 1..Len(kl) :
                    kl[d].ret = 0 =>
                        Replay(Without(kl, d), 1, <<>>)
                            = [i \in 1..(Len(kl) - 1) |-> Without(kl, d)[i].ret]

\* C19: they are answered the same when the key's state does not expire
\* between the checks that remain.  (Every sequence of checks is looked at
\* in the state its last check leaves, before the clock moves on.)
C19_DeniedTransparentUnexpired ==
    \A key \in LoggedKeys :
        LET kl == KeyLog(key)
        IN  (NonDecreasing(kl) /\ clock = kl[Len(kl)].at) =>
                \A d \in 1..Len(kl) :
                    (kl[d].ret = 0 /\ Unexpired(Without(kl, d))) =>
                        Replay(Without(kl, d), 1, <<>>)
                            = [i \in 1..(Len(kl) - 1) |-> Without(kl, d)[i].ret]

\* capacity 1: a check denied at 500 ms stood between the allowed checks at
\* 0 and at 1000 ms, and a last check was denied
C19_Witness ==
    /\ capacity = 1
    /\ Len(log) = 4
    /\ NonDecreasing(log) /\ Unexpired(log)
    /\ log[1].ret = 1 /\ log[2].ret = 0 /\ log[3].ret = 1 /\ log[4].ret = 0
    /\ log[1].now = 0 /\ log[2].now = 500 /\ log[3].now = 1000
    /\ Replay(Without(log, 2), 1, <<>>) = <<1, 1, 0>>

\* C20: every state AppState::new constructs, for any rps it accepts, has
\* leak_per_sec > 0 and an expiry of at least one second.
C20_LeakPositive ==
    /\ leak_per_sec > 0
    /\ TtlSecs(capacity, leak_per_sec) >= 1
====
